---- MODULE Spec2Model ----
(***************************************************************************)
(* ScreenAdapter of src/browser/screen.js as a state machine: the text     *)
(* grid with its dirty rows, the cursor, the row renderer that writes the  *)
(* text surface, and the requestAnimationFrame loop with destroy / pause.  *)
(***************************************************************************)
EXTENDS Integers, Sequences, FiniteSets, TLC

(* ------------------------------ bounds -------------------------------- *)

\* The largest grid set_size_text is called with (the 80x25 preset of init()
\* is scaled down to it).
MaxCols == 2
MaxRows == 2
\* How many calls of the adapter's methods one behaviour holds (animation
\* frames are not counted).
MaxOps == 2
\* The longest row of the row-renderer specification.
MaxRowLen == 3
\* The width and height, in pixels, of the images update_buffer is given.
MaxImage == 2

(* -------------------------- program constants ------------------------- *)

CHARACTER_INDEX == 0
BLINKING_INDEX == 1
BG_COLOR_INDEX == 2
FG_COLOR_INDEX == 3
TEXT_MODE_COMPONENT_SIZE == 4

\* cursor_row and cursor_col are declared without a value: undefined until
\* the first update_cursor.  undefined compares false with every number
\* (undefined < n, undefined === n, undefined + 1 === n are all false).
Undefined == -1

charmap_high ==
    << \H2302,
       \HC7, \HFC, \HE9, \HE2, \HE4, \HE0, \HE5, \HE7,
       \HEA, \HEB, \HE8, \HEF, \HEE, \HEC, \HC4, \HC5,
       \HC9, \HE6, \HC6, \HF4, \HF6, \HF2, \HFB, \HF9,
       \HFF, \HD6, \HDC, \HA2, \HA3, \HA5, \H20A7, \H192,
       \HE1, \HED, \HF3, \HFA, \HF1, \HD1, \HAA, \HBA,
       \HBF, \H2310, \HAC, \HBD, \HBC, \HA1, \HAB, \HBB,
       \H2591, \H2592, \H2593, \H2502, \H2524, \H2561, \H2562, \H2556,
       \H2555, \H2563, \H2551, \H2557, \H255D, \H255C, \H255B, \H2510,
       \H2514, \H2534, \H252C, \H251C, \H2500, \H253C, \H255E, \H255F,
       \H255A, \H2554, \H2569, \H2566, \H2560, \H2550, \H256C, \H2567,
       \H2568, \H2564, \H2565, \H2559, \H2558, \H2552, \H2553, \H256B,
       \H256A, \H2518, \H250C, \H2588, \H2584, \H258C, \H2590, \H2580,
       \H3B1, \HDF, \H393, \H3C0, \H3A3, \H3C3, \HB5, \H3C4,
       \H3A6, \H398, \H3A9, \H3B4, \H221E, \H3C6, \H3B5, \H2229,
       \H2261, \HB1, \H2265, \H2264, \H2320, \H2321, \HF7,
       \H2248, \HB0, \H2219, \HB7, \H221A, \H207F, \HB2, \H25A0, \HA0 >>

charmap_low ==
    << \H20,   \H263A, \H263B, \H2665, \H2666, \H2663, \H2660, \H2022,
       \H25D8, \H25CB, \H25D9, \H2642, \H2640, \H266A, \H266B, \H263C,
       \H25BA, \H25C4, \H2195, \H203C, \HB6,   \HA7,   \H25AC, \H21A8,
       \H2191, \H2193, \H2192, \H2190, \H221F, \H2194, \H25B2, \H25BC >>

\* A string is the sequence of its UTF-16 code units; String.fromCharCode(n)
\* is the one-unit string <<n>>.
fromCharCode(n) == <<n % 65536>>

\* charmap[i], the glyph the text surface shows for the byte i (the arrays
\* are 0-indexed in the source, sequences are 1-indexed here).  The table has
\* the entries 0..255: any other index reads undefined, which text += turns
\* into the nine letters of "undefined".
charmap(i) ==
    IF i < 0 \/ i > 255 THEN <<117, 110, 100, 101, 102, 105, 110, 101, 100>>
    ELSE IF i > 126 THEN fromCharCode(charmap_high[(i - 127) + 1])
    ELSE IF i < 32 THEN fromCharCode(charmap_low[i + 1])
    ELSE fromCharCode(i)

RECURSIVE toString16(_)
\* n.toString(16) as the sequence of its hexadecimal digits, no leading zero.
toString16(n) ==
    IF n < 16 THEN <<n>> ELSE Append(toString16(n \div 16), n % 16)

\* "0".repeat(k); a negative count throws RangeError, which the inputs
\* (24-bit colors) never produce.
repeat0(k) == [j \in 1..k |-> 0]

\* 0x12345 -> "#012345": the six hexadecimal digits after the "#".
number_as_color(n) ==
    LET s == toString16(n) IN repeat0(6 - Len(s)) \o s

(* ------------------------------ numbers ------------------------------- *)

RECURSIVE GCD(_, _)
GCD(a, b) == IF b = 0 THEN a ELSE GCD(b, a % b)

\* A scale or a pixel ratio is a fraction <<n, d>> in lowest terms, d > 0:
\* the scales and ratios met here are not all whole numbers (1.5, 2 / 1.5).
Rat(n, d) == LET g == GCD(n, d) IN <<n \div g, d \div g>>
Num(n) == <<n, 1>>
RatMul(a, b) == Rat(a[1] * b[1], a[2] * b[2])
RatDiv(a, b) == Rat(a[1] * b[2], a[2] * b[1])
\* x % 1 === 0
IsIntegral(a) == a[2] = 1

(* ------------------------------ the state ----------------------------- *)

VARIABLES
    text_mode_width,    \* number of columns
    text_mode_height,   \* number of rows
    text_mode_data,     \* Int32Array: 4 components per cell, row-major
    changed_rows,       \* Int8Array: one dirty flag per row
    cursor_row,
    cursor_col,
    is_graphical,
    stopped,
    paused,
    raf_pending,        \* animation-frame callbacks requested, not yet run
    text_screen,        \* the text surface: childNodes of text_screen,
                        \* each row the sequence of its child elements
    cursor_backgroundColor, \* cursor_element.style.backgroundColor
    last,               \* the operation that ran last, with its arguments
    rendered,           \* the rows text_update_row was called with by the
                        \* last operation, in call order
    fill_calls,         \* screen_fill_buffer calls made by the last operation
    written,            \* rows put_char wrote since the previous tick
    marked,             \* rows whose dirty flag was set since the previous
                        \* update_text or reallocating set_size_text
    scale_x, scale_y, base_scale,
    text_display,       \* text_screen.style.display
    graphic_display,    \* graphic_screen.style.display
    blinking_cursor,    \* cursor_element.classList has "blinking-cursor"
    text_style,         \* text_screen.style: width, height, transform
    graphic_style,      \* graphic_screen.style: width, height, imageRendering
    cursor_style,       \* cursor_element.style: display, height, marginTop
    graphic_width,      \* graphic_screen.width
    graphic_height,     \* graphic_screen.height
    graphic_pixels,     \* the canvas bitmap: the pixels that were drawn
                        \* since it was last reset, <<x, y>> -> content
    innerWidth,         \* window.innerWidth
    innerHeight,        \* window.innerHeight
    devicePixelRatio,   \* window.devicePixelRatio
    disable_autoscale,  \* options.disable_autoscale
    DEBUG,              \* the build: dbg_assert throws only in a debug build
    nops                \* method calls made so far, for MaxOps

grid == << text_mode_width, text_mode_height, text_mode_data, changed_rows >>
cursor == << cursor_row, cursor_col >>
scale == << scale_x, scale_y, base_scale >>
surface == << text_screen, cursor_backgroundColor, text_display,
              graphic_display, blinking_cursor >>
scheduler == << is_graphical, stopped, paused, raf_pending >>
history == << last, rendered, fill_calls, written, marked >>
style == << text_style, graphic_style, cursor_style >>
canvas == << graphic_width, graphic_height, graphic_pixels >>
window == << innerWidth, innerHeight, devicePixelRatio >>
build == << disable_autoscale, DEBUG >>

vars == << grid, cursor, scale, surface, scheduler, history, style, canvas,
           window, build, nops >>

(* --------------------------- typed arrays ----------------------------- *)

\* new Int8Array(n) / new Int32Array(n): n zeros, indexed from 0.
NewTypedArray(n) == [j \in 0..(n - 1) |-> 0]

\* a[i] = v on a typed array: an index outside the array is ignored.
TypedArraySet(a, i, v) == IF i \in DOMAIN a THEN [a EXCEPT ![i] = v] ELSE a

(* --------------------------- the row renderer ------------------------- *)

\* The elements text_update_row appends to the fragment: a span with its
\* style and text, or the (single) cursor element.
Span(blinking, bg_color, fg_color, text) ==
    [ tag |-> "span", blink |-> (blinking # 0),
      backgroundColor |-> number_as_color(bg_color),
      color |-> number_as_color(fg_color), textContent |-> text ]

CursorElement ==
    [ tag |-> "cursor", blink |-> FALSE, backgroundColor |-> <<>>,
      color |-> <<>>, textContent |-> <<>> ]

\* A mistaken comparison: the foreground color is not compared.
SameColor_no_fg(data, offset, blinking, bg_color, fg_color) ==
    /\ data[offset + BLINKING_INDEX] = blinking
    /\ data[offset + BG_COLOR_INDEX] = bg_color

\* The cell at offset has the run's attributes (the while loop's condition).
SameColor(data, offset, blinking, bg_color, fg_color) ==
    /\ data[offset + BLINKING_INDEX] = blinking
    /\ data[offset + BG_COLOR_INDEX] = bg_color
    /\ data[offset + FG_COLOR_INDEX] = fg_color

\* A mistaken test: the row is not compared with the cursor's row.
NextIsCursor_any_row(crow, ccol, row, i) ==
    ccol # Undefined /\ i = ccol

\* row === cursor_row && i === cursor_col: the next cell is the cursor's.
NextIsCursor(crow, ccol, row, i) ==
    row = crow /\ crow # Undefined /\ i = ccol

\* A mistaken test: the cursor is looked for one column too far.
FoundCursor_off_by_one(crow, ccol, row, i) ==
    row = crow /\ crow # Undefined /\ i = ccol + 2

\* row === cursor_row && i === cursor_col + 1: the cell just read is the
\* cursor's.
FoundCursor(crow, ccol, row, i) ==
    row = crow /\ crow # Undefined /\ i = ccol + 1

RECURSIVE SameColorRun(_, _, _, _, _, _, _, _, _, _, _)
\* The inner while loop of text_update_row: from column i (data offset
\* offset) it appends glyphs to text while the cell has the run's
\* attributes, and breaks after the cell before the cursor and after the
\* cursor's cell.  Result: the loop's variables when it is left, and whether
\* the cursor was found.
SameColorRun(data, width, crow, ccol, row, i, offset, blinking, bg_color, fg_color, text) ==
    IF i < width /\ SameColor(data, offset, blinking, bg_color, fg_color)
    THEN LET ascii == data[offset + CHARACTER_INDEX]
             text2 == text \o charmap(ascii)
             i2 == i + 1
             offset2 == offset + TEXT_MODE_COMPONENT_SIZE
         IN  IF NextIsCursor(crow, ccol, row, i2)
             THEN [i |-> i2, offset |-> offset2, text |-> text2, found |-> FALSE]
             ELSE IF FoundCursor(crow, ccol, row, i2)
             THEN [i |-> i2, offset |-> offset2, text |-> text2, found |-> TRUE]
             ELSE SameColorRun(data, width, crow, ccol, row, i2, offset2,
                               blinking, bg_color, fg_color, text2)
    ELSE [i |-> i, offset |-> offset, text |-> text, found |-> FALSE]

RECURSIVE RowFragment(_, _, _, _, _, _, _, _, _)
\* The outer for loop of text_update_row: one span per iteration, the cursor
\* element appended before the span of the run in which it was found.
\* Result: the fragment's children and the cursor element's background
\* (cbg, unchanged unless the cursor was found).
RowFragment(data, width, crow, ccol, row, i, offset, fragment, cbg) ==
    IF i < width
    THEN LET blinking == data[offset + BLINKING_INDEX]
             bg_color == data[offset + BG_COLOR_INDEX]
             fg_color == data[offset + FG_COLOR_INDEX]
             run == SameColorRun(data, width, crow, ccol, row, i, offset,
                                 blinking, bg_color, fg_color, <<>>)
             color_element == Span(blinking, bg_color, fg_color, run.text)
         IN  RowFragment(data, width, crow, ccol, row, run.i, run.offset,
                 IF run.found
                 THEN fragment \o <<CursorElement, color_element>>
                 ELSE Append(fragment, color_element),
                 IF run.found THEN color_element.color ELSE cbg)
    ELSE [children |-> fragment, cursor_bg |-> cbg]

\* text_update_row(row) up to the replaceChild: the fragment built from the
\* row's cells and the cursor position.
text_update_row_fragment(data, width, crow, ccol, row, cbg) ==
    RowFragment(data, width, crow, ccol, row, 0,
                TEXT_MODE_COMPONENT_SIZE * row * width, <<>>, cbg)

\* get_text_row(y): the row's characters, each through String.fromCharCode.
get_text_row_of(data, width, y) ==
    LET RECURSIVE loop(_, _)
        loop(x, result) ==
            IF x < width
            THEN LET index == (y * width + x) * TEXT_MODE_COMPONENT_SIZE
                     character == data[index + CHARACTER_INDEX]
                 IN  loop(x + 1, result \o fromCharCode(character))
            ELSE result
    IN  loop(0, <<>>)

get_text_row(y) == get_text_row_of(text_mode_data, text_mode_width, y)

\* get_text_screen(): the rows 0..height-1 in order.
get_text_screen == [r \in 1..text_mode_height |-> get_text_row(r - 1)]

(* ----------------------------- the surface ---------------------------- *)

\* A row of the text surface without the cursor element: appendChild moves
\* the one cursor element out of the row that held it.
WithoutCursor(children) == SelectSeq(children, LAMBDA e : e.tag # "cursor")

\* text_update_row(row) on the surface dom = [screen, cursor_bg]: the row's
\* element is replaced by the fragment; when the fragment holds the cursor
\* element, no other row holds it any longer.
text_update_row(data, width, crow, ccol, dom, row) ==
    LET f == text_update_row_fragment(data, width, crow, ccol, row, dom.cursor_bg)
        has_cursor == \E k \in 1..Len(f.children) : f.children[k].tag = "cursor"
    IN  [ screen |-> [r \in 1..Len(dom.screen) |->
                        IF r = row + 1 THEN f.children
                        ELSE IF has_cursor THEN WithoutCursor(dom.screen[r])
                        ELSE dom.screen[r]],
          cursor_bg |-> f.cursor_bg ]

RECURSIVE RenderRows(_, _, _, _, _, _)
\* text_update_row for each row of the sequence rows, in order.
RenderRows(data, width, crow, ccol, dom, rows) ==
    IF rows = <<>> THEN dom
    ELSE RenderRows(data, width, crow, ccol,
                    text_update_row(data, width, crow, ccol, dom, Head(rows)),
                    Tail(rows))

RECURSIVE RowsWhere(_, _, _)
\* The rows i, i+1, ..., height-1 whose flag is set, ascending: the order of
\* a for loop over the rows.
RowsWhere(flags, i, height) ==
    IF i < height
    THEN (IF flags[i] # 0 THEN <<i>> ELSE <<>>) \o RowsWhere(flags, i + 1, height)
    ELSE <<>>

(* ------------------------------ the scale ----------------------------- *)

\* The layer-debugging build (outlines instead of pixels) is switched off.
DEBUG_SCREEN_LAYERS == FALSE

\* An element's style before any scale was applied to it.  width and height
\* are <<>> for "" and <<f>> for (rectangle.width * f) + "px", rectangle
\* being the element's bounding box measured with the style cleared; the
\* transform is the sequence of its functions.
NoStyle ==
    [ width |-> <<>>, height |-> <<>>, transform |-> <<>>,
      imageRendering |-> "", msInterpolationMode |-> "" ]

\* window.devicePixelRatio || 1
DevicePixelRatioOr1(dpr) == IF dpr[1] = 0 THEN Num(1) ELSE dpr

\* if(device_pixel_ratio % 1 !== 0) scale /= device_pixel_ratio
Normalized(s, device_pixel_ratio) ==
    IF ~IsIntegral(device_pixel_ratio) THEN RatDiv(s, device_pixel_ratio) ELSE s

\* elem_set_scale(elem, scale_x, scale_y, use_scale) on the style st of elem,
\* the window's pixel ratio being dpr: the style it leaves.
elem_set_scale(st, s_x, s_y, use_scale, dpr) ==
    LET scale_str ==
            (IF s_x = Num(1) THEN <<>> ELSE << <<"scaleX", s_x>> >>)
            \o (IF s_y = Num(1) THEN <<>> ELSE << <<"scaleY", s_y>> >>)
        crisp == IsIntegral(s_x) /\ IsIntegral(s_y)
        device_pixel_ratio == DevicePixelRatioOr1(dpr)
        x == IF use_scale THEN s_x ELSE Normalized(s_x, device_pixel_ratio)
        y == IF use_scale THEN s_y ELSE Normalized(s_y, device_pixel_ratio)
    IN  [ width |-> IF x # Num(1) THEN <<x>> ELSE <<>>,
          height |-> IF y # Num(1) THEN <<y>> ELSE <<>>,
          transform |-> IF use_scale THEN scale_str ELSE st.transform,
          imageRendering |->
              IF use_scale THEN st.imageRendering
              ELSE IF crisp THEN "pixelated" ELSE "",
          msInterpolationMode |->
              IF use_scale THEN st.msInterpolationMode
              ELSE IF crisp THEN "nearest-neighbor" ELSE "" ]

\* update_scale_text() and update_scale_graphic() with the scale state
\* s_x, s_y, base: the style of text_screen and of graphic_screen after it.
update_scale_text(st, s_x, s_y, dpr) ==
    elem_set_scale(st, s_x, s_y, TRUE, dpr)

update_scale_graphic(st, s_x, s_y, base, dpr) ==
    elem_set_scale(st, RatMul(s_x, Num(base)), RatMul(s_y, Num(base)), FALSE, dpr)

\* A mistaken threshold: a width of 640 is not scaled.
AutoScale_below_640(no_autoscale, width, height, inner_w, inner_h, dpr) ==
    /\ ~no_autoscale
    /\ width < 640
    /\ width * 2 * dpr[2] < inner_w * dpr[1]
    /\ height * 2 * dpr[2] < inner_h * dpr[1]

\* The test of set_size_graphical, "add some scaling to tiny resolutions":
\* !options.disable_autoscale && width <= 640 &&
\* width * 2 < innerWidth * devicePixelRatio &&
\* height * 2 < innerHeight * devicePixelRatio
AutoScale(no_autoscale, width, height, inner_w, inner_h, dpr) ==
    /\ ~no_autoscale
    /\ width <= 640
    /\ width * 2 * dpr[2] < inner_w * dpr[1]
    /\ height * 2 * dpr[2] < inner_h * dpr[1]

(* ------------------------------ the canvas ---------------------------- *)

\* The bitmap of a canvas that was just reset (transparent black) and of one
\* that clear_screen filled: fill is what every pixel not drawn since holds.
BlankPixels == [fill |-> "transparent", data |-> [q \in {} |-> 0]]
BlackPixels == [fill |-> "#000", data |-> [q \in {} |-> 0]]

(* ------------------------------- inputs ------------------------------- *)

\* The cells put_char is called with: <<chr, blinking, bg_color, fg_color>>.
CellInputs ==
    { <<65, 0, 0, \HAAAAAA>>, <<0, 1, \HAA, \HFFFFFF>> }

Dom == [screen |-> text_screen, cursor_bg |-> cursor_backgroundColor]

Range(seq) == {seq[k] : k \in 1..Len(seq)}

\* A mistaken loop: the last row is left out.
AllRows_but_last(height) == [k \in 1..(height - 1) |-> k - 1]

\* The rows 0 .. height-1 in the order of for(i = 0; i < rows; i++).
AllRows(height) == RowsWhere([i \in 0..(height - 1) |-> 1], 0, height)

(* ---------------------------- construction ---------------------------- *)

\* cursor_element.style as the constructor sets it: height and marginTop
\* are <<>> for "" and <<n>> for n + "px".
CursorStyle == [display |-> "inline-block", height |-> <<>>, marginTop |-> <<>>]

\* The state the constructor leaves, for the options use_graphical_text and
\* disable_autoscale, the build and the window it runs in: set_scale(1, 1),
\* not stopped, not paused, and init() has run set_mode, then
\* set_size_text(80, 25) (every row rendered once, no dirty flag; the grid
\* is MaxCols x MaxRows here) or set_size_graphical(720, 400, 720, 400), then
\* timer().  With use_graphical_text there is no text grid yet:
\* text_mode_width and text_mode_height are undefined and no array exists.
ScreenAdapter(use_graphical_text, no_autoscale, debug, inner_w, inner_h, dpr) ==
    LET data == NewTypedArray(MaxCols * MaxRows * TEXT_MODE_COMPONENT_SIZE)
        blank == [screen |-> [r \in 1..MaxRows |-> <<>>], cursor_bg |-> number_as_color(\Hcccccc)]
        dom == RenderRows(data, MaxCols, Undefined, Undefined, blank, AllRows(MaxRows))
        text0 == update_scale_text(NoStyle, Num(1), Num(1), dpr)
        graphic0 == update_scale_graphic(NoStyle, Num(1), Num(1), 1, dpr)
        base == IF AutoScale(no_autoscale, 720, 400, inner_w, inner_h, dpr)
                THEN 2 ELSE 1
    IN  /\ cursor_row = Undefined
        /\ cursor_col = Undefined
        /\ scale_x = Num(1)
        /\ scale_y = Num(1)
        /\ is_graphical = use_graphical_text
        /\ stopped = FALSE
        /\ paused = FALSE
        /\ raf_pending = 1
        /\ blinking_cursor = FALSE
        /\ innerWidth = inner_w
        /\ innerHeight = inner_h
        /\ devicePixelRatio = dpr
        /\ disable_autoscale = no_autoscale
        /\ DEBUG = debug
        /\ cursor_style = CursorStyle
        /\ graphic_pixels = BlankPixels
        /\ last = [op |-> "init"]
        /\ fill_calls = 0
        /\ written = {}
        /\ marked = {}
        /\ nops = 0
        /\ IF use_graphical_text
           THEN /\ text_mode_width = Undefined
                /\ text_mode_height = Undefined
                /\ text_mode_data = NewTypedArray(0)
                /\ changed_rows = NewTypedArray(0)
                /\ text_screen = <<>>
                /\ cursor_backgroundColor = number_as_color(\Hcccccc)
                /\ text_display = "none"
                /\ graphic_display = "block"
                /\ graphic_width = 720
                /\ graphic_height = 400
                /\ base_scale = base
                /\ text_style = text0
                /\ graphic_style =
                      update_scale_graphic(graphic0, Num(1), Num(1), base, dpr)
                /\ rendered = <<>>
           ELSE /\ text_mode_width = MaxCols
                /\ text_mode_height = MaxRows
                /\ text_mode_data = data
                /\ changed_rows = NewTypedArray(MaxRows)
                /\ text_screen = dom.screen
                /\ cursor_backgroundColor = dom.cursor_bg
                /\ text_display = "block"
                /\ graphic_display = "none"
                /\ graphic_width = Undefined
                /\ graphic_height = Undefined
                /\ base_scale = 1
                /\ text_style = update_scale_text(text0, Num(1), Num(1), dpr)
                /\ graphic_style = graphic0
                /\ rendered = AllRows(MaxRows)

\* The adapter as the emulator's text console constructs it: no options, a
\* release build, a 1920x1080 window of pixel ratio 1.  The canvas was never
\* sized.
Init == ScreenAdapter(FALSE, FALSE, FALSE, 1920, 1080, Num(1))

(* ----------------------------- operations ----------------------------- *)

\* timer(): one more animation frame is requested unless stopped.
timer(pending) == IF ~stopped THEN pending + 1 ELSE pending

\* A mistaken offset: row and column are exchanged.
CellOffset_swapped(row, col, width) ==
    TEXT_MODE_COMPONENT_SIZE * (col * width + row)

\* The offset of the cell (row, col) in text_mode_data.
CellOffset(row, col, width) ==
    TEXT_MODE_COMPONENT_SIZE * (row * width + col)

\* The three dbg_assert conditions of put_char.
PutCharAsserts(row, col, chr) ==
    /\ row >= 0 /\ row < text_mode_height
    /\ col >= 0 /\ col < text_mode_width
    /\ chr >= 0 /\ chr < 256

\* put_char: in a debug build a failing dbg_assert throws and nothing is
\* written; a release build has no assertion and performs the five stores,
\* of which a typed array ignores those outside it.
put_char(row, col, chr, blinking, bg_color, fg_color) ==
    /\ nops < MaxOps
    /\ nops' = nops + 1
    /\ last' = [op |-> "put_char", row |-> row, col |-> col, chr |-> chr]
    /\ rendered' = <<>>
    /\ fill_calls' = 0
    /\ IF DEBUG /\ ~PutCharAsserts(row, col, chr)
       THEN UNCHANGED << grid, written, marked >>
       ELSE /\ LET p == CellOffset(row, col, text_mode_width)
                   d1 == TypedArraySet(text_mode_data, p + CHARACTER_INDEX, chr)
                   d2 == TypedArraySet(d1, p + BLINKING_INDEX, blinking)
                   d3 == TypedArraySet(d2, p + BG_COLOR_INDEX, bg_color)
                   d4 == TypedArraySet(d3, p + FG_COLOR_INDEX, fg_color)
               IN  text_mode_data' = d4
            /\ changed_rows' = TypedArraySet(changed_rows, row, 1)
            /\ written' = written \cup ({row} \cap DOMAIN changed_rows)
            /\ marked' = marked \cup ({row} \cap DOMAIN changed_rows)
            /\ UNCHANGED << text_mode_width, text_mode_height >>
    /\ UNCHANGED << cursor, scale, surface, scheduler, style, canvas, window,
                    build >>

\* A mistaken loop: it starts at row 1.
ChangedRows_from_1(changed, height) ==
    RowsWhere(changed, 1, height)

\* The rows update_text finds changed: for i = 0 .. height-1, changed_rows[i].
ChangedRows(changed, height) ==
    RowsWhere(changed, 0, height)

\* update_text(), the animation-frame callback of text mode.
update_text ==
    \E dirty \in {ChangedRows(changed_rows, text_mode_height)} :
    \E dom \in {RenderRows(text_mode_data, text_mode_width, cursor_row, cursor_col,
                          Dom, dirty)} :
        /\ text_screen' = dom.screen
        /\ cursor_backgroundColor' = dom.cursor_bg
        /\ changed_rows' = [i \in DOMAIN changed_rows |->
                              IF i \in Range(dirty) THEN 0 ELSE changed_rows[i]]
        /\ rendered' = dirty
        /\ fill_calls' = 0
        /\ raf_pending' = timer(raf_pending - 1)
        /\ last' = [op |-> "update_text"]
        /\ written' = {}
        /\ marked' = {}
        /\ UNCHANGED << text_mode_width, text_mode_height, text_mode_data, cursor,
                        scale, text_display, graphic_display, blinking_cursor,
                        is_graphical, stopped, paused, style, canvas, window,
                        build, nops >>

\* A mistaken tick: while paused it requests no next frame.
update_graphical_pause_stops ==
    /\ fill_calls' = IF ~paused THEN 1 ELSE 0
    /\ rendered' = <<>>
    /\ raf_pending' = IF paused THEN raf_pending - 1 ELSE timer(raf_pending - 1)
    /\ last' = [op |-> "update_graphical"]
    /\ written' = {}
    /\ UNCHANGED << grid, cursor, scale, surface, is_graphical, stopped, paused,
                    marked, style, canvas, window, build, nops >>

\* update_graphical(), the animation-frame callback of graphics mode.
update_graphical ==
    /\ fill_calls' = IF ~paused THEN 1 ELSE 0
    /\ rendered' = <<>>
    /\ raf_pending' = timer(raf_pending - 1)
    /\ last' = [op |-> "update_graphical"]
    /\ written' = {}
    /\ UNCHANGED << grid, cursor, scale, surface, is_graphical, stopped, paused,
                    marked, style, canvas, window, build, nops >>

\* The browser runs a requested animation-frame callback:
\* () => is_graphical ? this.update_graphical() : this.update_text().
animation_frame ==
    /\ raf_pending > 0
    /\ IF is_graphical THEN update_graphical ELSE update_text

destroy ==
    /\ stopped' = TRUE
    /\ nops < MaxOps
    /\ nops' = nops + 1
    /\ last' = [op |-> "destroy"]
    /\ rendered' = <<>>
    /\ fill_calls' = 0
    /\ UNCHANGED << grid, cursor, scale, surface, is_graphical, paused,
                    raf_pending, written, marked, style, canvas, window, build >>

pause ==
    /\ paused' = TRUE
    /\ blinking_cursor' = FALSE
    /\ nops < MaxOps
    /\ nops' = nops + 1
    /\ last' = [op |-> "pause"]
    /\ rendered' = <<>>
    /\ fill_calls' = 0
    /\ UNCHANGED << grid, cursor, scale, text_screen, cursor_backgroundColor,
                    text_display, graphic_display, is_graphical, stopped,
                    raf_pending, written, marked, style, canvas, window, build >>

\* A mistaken continue: it starts the tick loop again.
continue_requests_frame ==
    /\ paused' = FALSE
    /\ blinking_cursor' = TRUE
    /\ nops < MaxOps
    /\ nops' = nops + 1
    /\ last' = [op |-> "continue"]
    /\ rendered' = <<>>
    /\ fill_calls' = 0
    /\ raf_pending' = timer(raf_pending)
    /\ UNCHANGED << grid, cursor, scale, text_screen, cursor_backgroundColor,
                    text_display, graphic_display, is_graphical, stopped,
                    written, marked, style, canvas, window, build >>

continue ==
    /\ paused' = FALSE
    /\ blinking_cursor' = TRUE
    /\ nops < MaxOps
    /\ nops' = nops + 1
    /\ last' = [op |-> "continue"]
    /\ rendered' = <<>>
    /\ fill_calls' = 0
    /\ UNCHANGED << grid, cursor, scale, text_screen, cursor_backgroundColor,
                    text_display, graphic_display, is_graphical, stopped,
                    raf_pending, written, marked, style, canvas, window, build >>

set_mode(graphical) ==
    /\ is_graphical' = graphical
    /\ text_display' = IF graphical THEN "none" ELSE "block"
    /\ graphic_display' = IF graphical THEN "block" ELSE "none"
    /\ nops < MaxOps
    /\ nops' = nops + 1
    /\ last' = [op |-> "set_mode"]
    /\ rendered' = <<>>
    /\ fill_calls' = 0
    /\ UNCHANGED << grid, cursor, scale, text_screen, cursor_backgroundColor,
                    blinking_cursor, stopped, paused, raf_pending, written,
                    marked, style, canvas, window, build >>

\* text_screen's children after the two while loops of set_size_text:
\* first children are removed while there are more than rows, empty divs
\* are appended while there are fewer.
ResizeChildren(screen, rows) ==
    IF Len(screen) > rows
    THEN SubSeq(screen, Len(screen) - rows + 1, Len(screen))
    ELSE screen \o [j \in 1..(rows - Len(screen)) |-> <<>>]

\* A mistaken test: rows is compared with the width.
SameTextSize_width_twice(cols, rows) ==
    cols = text_mode_width /\ rows = text_mode_width

\* cols === text_mode_width && rows === text_mode_height
SameTextSize(cols, rows) ==
    cols = text_mode_width /\ rows = text_mode_height

set_size_text(cols, rows) ==
    /\ nops < MaxOps
    /\ nops' = nops + 1
    /\ last' = [op |-> "set_size_text"]
    /\ fill_calls' = 0
    /\ IF SameTextSize(cols, rows)
       THEN /\ rendered' = <<>>
            /\ UNCHANGED << grid, cursor, scale, surface, scheduler, written,
                            marked, style, canvas, window, build >>
       ELSE /\ LET data == NewTypedArray(cols * rows * TEXT_MODE_COMPONENT_SIZE)
                   dom == RenderRows(data, cols, cursor_row, cursor_col,
                              [screen |-> ResizeChildren(text_screen, rows),
                               cursor_bg |-> cursor_backgroundColor],
                              AllRows(rows))
               IN  /\ changed_rows' = NewTypedArray(rows)
                   /\ text_mode_data' = data
                   /\ text_mode_width' = cols
                   /\ text_mode_height' = rows
                   /\ text_screen' = dom.screen
                   /\ cursor_backgroundColor' = dom.cursor_bg
                   /\ rendered' = AllRows(rows)
            /\ marked' = {}
            /\ text_style' = update_scale_text(text_style, scale_x, scale_y,
                                                devicePixelRatio)
            /\ UNCHANGED << cursor, scale, text_display, graphic_display,
                            blinking_cursor, scheduler, written, graphic_style,
                            cursor_style, canvas, window, build >>

\* A mistaken update: the previous cursor row is not marked.
CursorChangedRows_new_only(changed, height, row, old_row) ==
    IF row < height THEN TypedArraySet(changed, row, 1) ELSE changed

\* changed_rows after update_cursor moved the cursor from old_row to row.
CursorChangedRows(changed, height, row, old_row) ==
    LET c1 == IF row < height THEN TypedArraySet(changed, row, 1) ELSE changed
    IN  IF old_row # Undefined /\ old_row < height
        THEN TypedArraySet(c1, old_row, 1)
        ELSE c1

update_cursor(row, col) ==
    /\ nops < MaxOps
    /\ nops' = nops + 1
    /\ last' = [op |-> "update_cursor"]
    /\ rendered' = <<>>
    /\ fill_calls' = 0
    /\ IF row # cursor_row \/ col # cursor_col
       THEN /\ changed_rows' = CursorChangedRows(changed_rows, text_mode_height,
                                                 row, cursor_row)
            /\ marked' = marked \cup ({row, cursor_row} \cap (0..(text_mode_height - 1)))
            /\ cursor_row' = row
            /\ cursor_col' = col
            /\ UNCHANGED << text_mode_width, text_mode_height, text_mode_data,
                            scale, surface, scheduler, written, style, canvas,
                            window, build >>
       ELSE UNCHANGED << grid, cursor, scale, surface, scheduler, written,
                         marked, style, canvas, window, build >>

\* update_cursor_scanline(start, end, visible): the cursor element's shape.
update_cursor_scanline(start, end, visible) ==
    /\ nops < MaxOps
    /\ nops' = nops + 1
    /\ last' = [op |-> "update_cursor_scanline"]
    /\ rendered' = <<>>
    /\ fill_calls' = 0
    /\ cursor_style' =
          IF visible
          THEN [display |-> "inline", height |-> <<end - start>>,
                marginTop |-> <<start>>]
          ELSE [cursor_style EXCEPT !.display = "none"]
    /\ UNCHANGED << grid, cursor, scale, surface, scheduler, written, marked,
                    text_style, graphic_style, canvas, window, build >>

\* set_size_graphical(width, height, buffer_width, buffer_height): the
\* canvas is shown and sized, which resets its bitmap; base_scale is
\* computed from the size and the window; the canvas is scaled.
set_size_graphical(width, height, buffer_width, buffer_height) ==
    LET w == IF DEBUG_SCREEN_LAYERS THEN buffer_width ELSE width
        h == IF DEBUG_SCREEN_LAYERS THEN buffer_height ELSE height
        base == IF AutoScale(disable_autoscale, w, h, innerWidth, innerHeight,
                             devicePixelRatio)
                THEN 2 ELSE 1
    IN  /\ nops < MaxOps
        /\ nops' = nops + 1
        /\ last' = [op |-> "set_size_graphical"]
        /\ rendered' = <<>>
        /\ fill_calls' = 0
        /\ graphic_display' = "block"
        /\ graphic_width' = w
        /\ graphic_height' = h
        /\ graphic_pixels' = BlankPixels
        /\ base_scale' = base
        /\ graphic_style' = update_scale_graphic(graphic_style, scale_x, scale_y,
                                                  base, devicePixelRatio)
        /\ UNCHANGED << grid, cursor, scale_x, scale_y, text_screen,
                        cursor_backgroundColor, text_display, blinking_cursor,
                        scheduler, written, marked, text_style, cursor_style,
                        window, build >>

\* set_scale(s_x, s_y): the scale is stored and applied to both surfaces.
set_scale(s_x, s_y) ==
    /\ nops < MaxOps
    /\ nops' = nops + 1
    /\ last' = [op |-> "set_scale"]
    /\ rendered' = <<>>
    /\ fill_calls' = 0
    /\ scale_x' = s_x
    /\ scale_y' = s_y
    /\ text_style' = update_scale_text(text_style, s_x, s_y, devicePixelRatio)
    /\ graphic_style' = update_scale_graphic(graphic_style, s_x, s_y, base_scale,
                                              devicePixelRatio)
    /\ UNCHANGED << grid, cursor, base_scale, surface, scheduler, written,
                    marked, cursor_style, canvas, window, build >>

\* clear_screen(): the whole canvas is filled with "#000".
clear_screen ==
    /\ nops < MaxOps
    /\ nops' = nops + 1
    /\ last' = [op |-> "clear_screen"]
    /\ rendered' = <<>>
    /\ fill_calls' = 0
    /\ graphic_pixels' = BlackPixels
    /\ UNCHANGED << grid, cursor, scale, surface, scheduler, written, marked,
                    style, graphic_width, graphic_height, window, build >>

\* An ImageData of width x height pixels; the pixel (x, y) of image id
\* holds <<id, x, y>>.
ImageData(id, width, height) ==
    [ width |-> width, height |-> height,
      data |-> [q \in (0..(width - 1)) \X (0..(height - 1)) |-> <<id, q[1], q[2]>>] ]

\* A mistaken blit: the source rectangle's origin is not subtracted.
BlitOrigin_screen(screen, buffer) == screen

\* The dx (dy) argument of putImageData: layer.screen_x - layer.buffer_x.
BlitOrigin(screen, buffer) == screen - buffer

\* graphic_context.putImageData(image, dx, dy, dirtyX, dirtyY, dirtyWidth,
\* dirtyHeight) on the bitmap pixels of a canvas of cw x ch pixels: the pixels
\* of the dirty rectangle, clipped to the image, replace the canvas pixels at
\* their position plus (dx, dy), where the canvas has these.
putImageData(pixels, cw, ch, image, dx, dy, dirtyX, dirtyY, dirtyWidth, dirtyHeight) ==
    LET x0 == IF dirtyWidth < 0 THEN dirtyX + dirtyWidth ELSE dirtyX
        y0 == IF dirtyHeight < 0 THEN dirtyY + dirtyHeight ELSE dirtyY
        x1 == IF dirtyWidth < 0 THEN dirtyX ELSE dirtyX + dirtyWidth
        y1 == IF dirtyHeight < 0 THEN dirtyY ELSE dirtyY + dirtyHeight
        src == { q \in DOMAIN image.data :
                   /\ x0 <= q[1] /\ q[1] < x1
                   /\ y0 <= q[2] /\ q[2] < y1
                   /\ 0 <= q[1] + dx /\ q[1] + dx < cw
                   /\ 0 <= q[2] + dy /\ q[2] + dy < ch }
        dst == { <<q[1] + dx, q[2] + dy>> : q \in src }
    IN  [ fill |-> pixels.fill,
          data |-> [q \in (DOMAIN pixels.data) \cup dst |->
                      IF q \in dst
                      THEN image.data[<<q[1] - dx, q[2] - dy>>]
                      ELSE pixels.data[q]] ]

RECURSIVE BlitLayers(_, _, _, _)
\* for(const layer of layers) graphic_context.putImageData(...)
BlitLayers(pixels, cw, ch, layers) ==
    IF layers = <<>> THEN pixels
    ELSE LET layer == Head(layers)
         IN  BlitLayers(
                 putImageData(pixels, cw, ch, layer.image_data,
                              BlitOrigin(layer.screen_x, layer.buffer_x),
                              BlitOrigin(layer.screen_y, layer.buffer_y),
                              layer.buffer_x, layer.buffer_y,
                              layer.buffer_width, layer.buffer_height),
                 cw, ch, Tail(layers))

\* update_buffer(layers) of a build without layer debugging.
update_buffer(layers) ==
    /\ nops < MaxOps
    /\ nops' = nops + 1
    /\ last' = [op |-> "update_buffer", layers |-> layers]
    /\ rendered' = <<>>
    /\ fill_calls' = 0
    /\ graphic_pixels' = BlitLayers(graphic_pixels, graphic_width, graphic_height,
                                     layers)
    /\ UNCHANGED << grid, cursor, scale, surface, scheduler, written, marked,
                    style, graphic_width, graphic_height, window, build >>

\* The browser window is resized or moved to a screen of another pixel
\* ratio: no code of the adapter runs.
window_resize(inner_w, inner_h, dpr) ==
    /\ innerWidth' = inner_w
    /\ innerHeight' = inner_h
    /\ devicePixelRatio' = dpr
    /\ << inner_w, inner_h, dpr >> # window
    /\ last' = [op |-> "resize"]
    /\ rendered' = <<>>
    /\ fill_calls' = 0
    /\ UNCHANGED << grid, cursor, scale, surface, scheduler, written, marked,
                    style, canvas, build, nops >>

\* The text console: the emulated device calls put_char within the grid.
Next ==
    \/ \E row \in 0..(MaxRows - 1), col \in 0..(MaxCols - 1), c \in CellInputs :
           PutCharAsserts(row, col, c[1]) /\ put_char(row, col, c[1], c[2], c[3], c[4])
    \/ \E row \in 0..MaxRows, col \in 0..MaxCols : update_cursor(row, col)
    \/ \E cols \in 1..MaxCols, rows \in 1..MaxRows : set_size_text(cols, rows)
    \/ \E graphical \in BOOLEAN : set_mode(graphical)
    \/ animation_frame
    \/ pause
    \/ continue
    \/ destroy

Spec == Init /\ [][Next]_vars

(* ---------------- the row renderer on arbitrary rows ------------------ *)

\* The cells a row is filled with, <<chr, blinking, bg_color, fg_color>>: two
\* with the same attributes and different characters, and one that differs
\* in each single attribute.
RowCells ==
    { <<65, 0, 0, \HAAAAAA>>, <<0, 0, 0, \HAAAAAA>>, <<66, 1, 0, \HAAAAAA>>,
      <<255, 0, \HAA, \HAAAAAA>>, <<65, 0, 0, \HFFFFFF>> }

\* The cursor positions of the row-renderer specification: none yet, or on
\* either row at a column from 0 to beyond the row's end.
RowCursors == {<<Undefined, Undefined>>} \cup ((0..1) \X (0..MaxRowLen))

\* A state the adapter is in after set_size_text(width, 2), a put_char to
\* every cell of one row and an update_cursor: that row (and the cursor's)
\* is dirty and the surface still shows the blank rows of the resize.
InitRow ==
    \E width \in 1..MaxRowLen, row \in 0..1, cur \in RowCursors :
      \E cells \in [0..(width - 1) -> RowCells] :
        LET zero == NewTypedArray(width * 2 * TEXT_MODE_COMPONENT_SIZE)
            data == [j \in DOMAIN zero |->
                       LET cell == j \div TEXT_MODE_COMPONENT_SIZE
                       IN  IF cell \div width = row
                           THEN cells[cell % width][(j % TEXT_MODE_COMPONENT_SIZE) + 1]
                           ELSE 0]
            blank == [screen |-> <<<<>>, <<>>>>, cursor_bg |-> number_as_color(\Hcccccc)]
            dom == RenderRows(zero, width, Undefined, Undefined, blank, AllRows(2))
            dirty == {row} \cup ({cur[1]} \cap {0, 1})
        IN  /\ text_mode_width = width
            /\ text_mode_height = 2
            /\ text_mode_data = data
            /\ changed_rows = [r \in 0..1 |-> IF r \in dirty THEN 1 ELSE 0]
            /\ cursor_row = cur[1]
            /\ cursor_col = cur[2]
            /\ scale_x = Num(1)
            /\ scale_y = Num(1)
            /\ base_scale = 1
            /\ innerWidth = 1920
            /\ innerHeight = 1080
            /\ devicePixelRatio = Num(1)
            /\ disable_autoscale = FALSE
            /\ DEBUG = FALSE
            /\ text_style = update_scale_text(NoStyle, Num(1), Num(1), Num(1))
            /\ graphic_style = update_scale_graphic(NoStyle, Num(1), Num(1), 1, Num(1))
            /\ cursor_style = CursorStyle
            /\ graphic_width = Undefined
            /\ graphic_height = Undefined
            /\ graphic_pixels = BlankPixels
            /\ is_graphical = FALSE
            /\ stopped = FALSE
            /\ paused = FALSE
            /\ raf_pending = 1
            /\ text_screen = dom.screen
            /\ cursor_backgroundColor = dom.cursor_bg
            /\ text_display = "block"
            /\ graphic_display = "none"
            /\ blinking_cursor = FALSE
            /\ last = IF cur[1] = Undefined
                      THEN [op |-> "put_char", row |-> row, col |-> width - 1,
                            chr |-> cells[width - 1][1]]
                      ELSE [op |-> "update_cursor"]
            /\ rendered = <<>>
            /\ fill_calls = 0
            /\ written = {row}
            /\ marked = dirty
            /\ nops = MaxOps

NextRow == animation_frame

SpecRow == InitRow /\ [][NextRow]_vars

(* ------------------- put_char outside its contract -------------------- *)

\* The text console in a debug build and in a release build.
InitUnchecked ==
    \E debug \in BOOLEAN :
        ScreenAdapter(FALSE, FALSE, debug, 1920, 1080, Num(1))

\* The rows, columns and characters put_char is called with: from one before
\* the grid to one after it, and a character that is no byte.
UncheckedRows == (0 - 1)..MaxRows
UncheckedCols == (0 - 1)..MaxCols
UncheckedChars == {65, 256}

NextUnchecked ==
    \/ \E row \in UncheckedRows, col \in UncheckedCols, chr \in UncheckedChars :
           put_char(row, col, chr, 0, 0, \HAAAAAA)
    \/ animation_frame

SpecUnchecked == InitUnchecked /\ [][NextUnchecked]_vars

(* --------------------- the canvas and its scale ----------------------- *)

\* A layer of 2x2 pixels drawn whole at the canvas origin.
OneLayer ==
    [ image_data |-> ImageData("A", 2, 2), screen_x |-> 0, screen_y |-> 0,
      buffer_x |-> 0, buffer_y |-> 0, buffer_width |-> 2, buffer_height |-> 2 ]

\* The sizes set_size_graphical is called with, the windows and the pixel
\* ratios of the screen, and the scales set_scale is called with.
GraphicSizes == { <<320, 200>>, <<640, 480>>, <<720, 400>>, <<800, 600>> }
Viewports == { <<1920, 1080>>, <<1280, 1024>>, <<800, 400>> }
PixelRatios == { Num(1), Rat(3, 2), Num(2) }
Scales == { Num(1), Num(2), Rat(3, 2) }

\* The adapter constructed for a graphical console, with and without
\* autoscale, in any of the windows.
InitGraphics ==
    \E no_autoscale \in BOOLEAN, vp \in Viewports, dpr \in PixelRatios :
        ScreenAdapter(TRUE, no_autoscale, FALSE, vp[1], vp[2], dpr)

NextGraphics ==
    \/ \E size \in GraphicSizes, buffer \in GraphicSizes :
           set_size_graphical(size[1], size[2], buffer[1], buffer[2])
    \/ \E s_x \in Scales, s_y \in Scales : set_scale(s_x, s_y)
    \/ \E vp \in Viewports, dpr \in PixelRatios : window_resize(vp[1], vp[2], dpr)
    \/ \E graphical \in BOOLEAN : set_mode(graphical)
    \/ update_buffer(<<OneLayer>>)
    \/ clear_screen

SpecGraphics == InitGraphics /\ [][NextGraphics]_vars

(* ------------------------ the layers of a frame ----------------------- *)

\* The layers that show a rectangle of the image id: the rectangle starts at
\* any column of the image and may reach beyond its right edge, and is drawn
\* from one column left of the canvas onwards; it is the whole height of
\* the image, drawn at row 0 or 1, or the image's row 1 drawn at row 0.
Layers(id) ==
    { [ image_data |-> ImageData(id, MaxImage, MaxImage),
        screen_x |-> sx, screen_y |-> y[1], buffer_x |-> bx, buffer_y |-> y[2],
        buffer_width |-> bw, buffer_height |-> y[3] ] :
        sx \in (0 - 1)..(MaxImage - 1),
        bx \in 0..(MaxImage - 1), bw \in 1..MaxImage,
        y \in { <<0, 0, MaxImage>>, <<1, 0, MaxImage>>, <<0, 1, 1>> } }

\* The arguments of update_buffer: one layer, or a layer of image "A" below
\* a layer of image "B".
LayerLists ==
    { <<a>> : a \in Layers("A") }
        \cup { <<a, b>> : a \in Layers("A"), b \in Layers("B") }

\* A graphical adapter after set_size_graphical to 720x400, or to a canvas
\* as small as an image and after clear_screen.
InitBuffer ==
    \E size \in { <<MaxImage, MaxImage>>, <<720, 400>> } :
        LET cleared == size[1] = MaxImage
            base == IF AutoScale(FALSE, size[1], size[2], 1920, 1080, Num(1))
                    THEN 2 ELSE 1
        IN  /\ text_mode_width = Undefined
            /\ text_mode_height = Undefined
            /\ text_mode_data = NewTypedArray(0)
            /\ changed_rows = NewTypedArray(0)
            /\ cursor_row = Undefined
            /\ cursor_col = Undefined
            /\ scale_x = Num(1)
            /\ scale_y = Num(1)
            /\ base_scale = base
            /\ innerWidth = 1920
            /\ innerHeight = 1080
            /\ devicePixelRatio = Num(1)
            /\ disable_autoscale = FALSE
            /\ DEBUG = FALSE
            /\ text_style = update_scale_text(NoStyle, Num(1), Num(1), Num(1))
            /\ graphic_style =
                  update_scale_graphic(NoStyle, Num(1), Num(1), base, Num(1))
            /\ cursor_style = CursorStyle
            /\ graphic_width = size[1]
            /\ graphic_height = size[2]
            /\ graphic_pixels = IF cleared THEN BlackPixels ELSE BlankPixels
            /\ is_graphical = TRUE
            /\ stopped = FALSE
            /\ paused = FALSE
            /\ raf_pending = 1
            /\ text_screen = <<>>
            /\ cursor_backgroundColor = number_as_color(\Hcccccc)
            /\ text_display = "none"
            /\ graphic_display = "block"
            /\ blinking_cursor = FALSE
            /\ last = IF cleared THEN [op |-> "clear_screen"]
                      ELSE [op |-> "set_size_graphical"]
            /\ rendered = <<>>
            /\ fill_calls = 0
            /\ written = {}
            /\ marked = {}
            /\ nops = MaxOps - 1

\* The emulated VGA hands one frame's layers to the adapter.
NextBuffer == \E layers \in LayerLists : update_buffer(layers)

SpecBuffer == InitBuffer /\ [][NextBuffer]_vars

(* ---------------------- the scheduler's lifecycle --------------------- *)

\* The adapter constructed for a text console or for a graphical one.
InitLife ==
    \E use_graphical_text \in BOOLEAN :
        ScreenAdapter(use_graphical_text, FALSE, FALSE, 1920, 1080, Num(1))

\* Every operation of the adapter, each with one or two arguments: what the
\* scheduler does depends on none of them.
NextLife ==
    \/ \E c \in CellInputs :
           PutCharAsserts(0, 0, c[1]) /\ put_char(0, 0, c[1], c[2], c[3], c[4])
    \/ \E row \in 0..1 : update_cursor(row, 0)
    \/ \E cols \in {1, MaxCols} : set_size_text(cols, 1)
    \/ \E graphical \in BOOLEAN : set_mode(graphical)
    \/ set_size_graphical(320, 200, 320, 200)
    \/ set_scale(Num(2), Num(2))
    \/ update_cursor_scanline(14, 15, TRUE)
    \/ clear_screen
    \/ update_buffer(<<OneLayer>>)
    \/ animation_frame
    \/ pause
    \/ continue
    \/ destroy

SpecLife == InitLife /\ [][NextLife]_vars

(* --------------------- the console under fair ticks ------------------- *)

\* The text console of a release or a debug build as constructed, or after
\* the emulated VGA has switched it to graphics mode with set_mode(true).
InitLive ==
    \E graphical \in BOOLEAN, debug \in BOOLEAN :
        LET data == NewTypedArray(MaxCols * MaxRows * TEXT_MODE_COMPONENT_SIZE)
            blank == [screen |-> [r \in 1..MaxRows |-> <<>>],
                      cursor_bg |-> number_as_color(\Hcccccc)]
            dom == RenderRows(data, MaxCols, Undefined, Undefined, blank,
                              AllRows(MaxRows))
        IN  /\ text_mode_width = MaxCols
            /\ text_mode_height = MaxRows
            /\ text_mode_data = data
            /\ changed_rows = NewTypedArray(MaxRows)
            /\ cursor_row = Undefined
            /\ cursor_col = Undefined
            /\ scale_x = Num(1)
            /\ scale_y = Num(1)
            /\ base_scale = 1
            /\ innerWidth = 1920
            /\ innerHeight = 1080
            /\ devicePixelRatio = Num(1)
            /\ disable_autoscale = FALSE
            /\ DEBUG = debug
            /\ text_style = update_scale_text(NoStyle, Num(1), Num(1), Num(1))
            /\ graphic_style =
                  update_scale_graphic(NoStyle, Num(1), Num(1), 1, Num(1))
            /\ cursor_style = CursorStyle
            /\ graphic_width = Undefined
            /\ graphic_height = Undefined
            /\ graphic_pixels = BlankPixels
            /\ is_graphical = graphical
            /\ stopped = FALSE
            /\ paused = FALSE
            /\ raf_pending = 1
            /\ text_screen = dom.screen
            /\ cursor_backgroundColor = dom.cursor_bg
            /\ text_display = IF graphical THEN "none" ELSE "block"
            /\ graphic_display = IF graphical THEN "block" ELSE "none"
            /\ blinking_cursor = FALSE
            /\ last = IF graphical THEN [op |-> "set_mode"] ELSE [op |-> "init"]
            /\ rendered = IF graphical THEN <<>> ELSE AllRows(MaxRows)
            /\ fill_calls = 0
            /\ written = {}
            /\ marked = {}
            /\ nops = 0

\* The emulated device writes cells, at any row and column it computes,
\* moves the cursor, resizes the grid and switches the mode; the adapter is
\* not destroyed.
NextLive ==
    \/ \E row \in UncheckedRows, col \in UncheckedCols :
           put_char(row, col, 65, 0, 0, \HAAAAAA)
    \/ \E row \in 0..MaxRows, col \in 0..MaxCols : update_cursor(row, col)
    \/ \E cols \in 1..MaxCols, rows \in 1..MaxRows : set_size_text(cols, rows)
    \/ \E graphical \in BOOLEAN : set_mode(graphical)
    \/ animation_frame

\* The browser delivers every animation frame that stays requested.
SpecLive == InitLive /\ [][NextLive]_vars /\ WF_vars(animation_frame)

(* ------------------------- reading the state -------------------------- *)

\* Component k of the cell (row, col) of the grid.
Cell(row, col, k) ==
    text_mode_data[TEXT_MODE_COMPONENT_SIZE * (row * text_mode_width + col) + k]

GridRows == 0..(text_mode_height - 1)
GridCols == 0..(text_mode_width - 1)

\* What text_update_row(row) builds from the current grid and cursor.
Fragment(row) ==
    text_update_row_fragment(text_mode_data, text_mode_width, cursor_row,
                             cursor_col, row, cursor_backgroundColor)

\* The runs of a row: its spans, in order.
RunsOf(children) == SelectSeq(children, LAMBDA e : e.tag = "span")

RECURSIVE ConcatText(_)
ConcatText(runs) ==
    IF runs = <<>> THEN <<>> ELSE Head(runs).textContent \o ConcatText(Tail(runs))

\* The column at which run k starts: the cells of the runs before it.
RunStart(runs, k) == Len(ConcatText(SubSeq(runs, 1, k - 1)))
RunLen(runs, k) == Len(runs[k].textContent)
RunStarts(runs) == {RunStart(runs, k) : k \in 1..Len(runs)}

\* The attributes of a cell, and the columns at which a maximal segment of
\* equal attributes starts.
Attrs(row, col) ==
    << Cell(row, col, BLINKING_INDEX), Cell(row, col, BG_COLOR_INDEX),
       Cell(row, col, FG_COLOR_INDEX) >>
SegmentStarts(row) ==
    {j \in GridCols : j = 0 \/ Attrs(row, j) # Attrs(row, j - 1)}

\* The columns at which the cursor splits a run of its row: before and after
\* the cursor's cell, where these lie inside the row.
CursorSplits(row) ==
    IF row = cursor_row
    THEN {cursor_col, cursor_col + 1} \cap (1..(text_mode_width - 1))
    ELSE {}

TextTick == animation_frame /\ ~is_graphical
IsTick == last.op \in {"update_text", "update_graphical"}

\* The rows the last operation rendered, when it was a text-mode tick: the
\* surface shows them as rendered from the grid and cursor as they are now.
JustRendered == IF last.op = "update_text" THEN Range(rendered) ELSE {}

(* ------------------------------- claims ------------------------------- *)

\* C1 (as stated): once destroy() has been called, a tick that is delivered
\* renders no text row, does not call screen_fill_buffer and leaves no tick
\* requested.
C1_DestroyedTickIsInert ==
    (stopped /\ IsTick) => (rendered = <<>> /\ fill_calls = 0 /\ raf_pending = 0)

\* C2 (as stated): the rows a text-mode tick renders are exactly the rows
\* put_char wrote since the previous tick, all dirty flags are clear after
\* it, and a tick right after a tick renders nothing.
C2_RendersExactlyWrittenRows ==
    [][TextTick =>
          /\ Range(rendered') = written
          /\ \A r \in GridRows : changed_rows'[r] = 0
          /\ (last.op = "update_text" => rendered' = <<>>)]_vars

\* C2 (amended): the rows a text-mode tick renders are exactly the rows of
\* the grid whose dirty flag was set, by put_char or by update_cursor (the
\* previous and the new cursor row), since the previous text-mode tick or
\* the last reallocating set_size_text; each is rendered once; all dirty
\* flags are clear after it; a tick right after a tick renders nothing.
C2_RendersExactlyMarkedRows ==
    [][TextTick =>
          /\ Range(rendered') = marked
          /\ Len(rendered') = Cardinality(marked)
          /\ \A r \in GridRows : changed_rows'[r] = 0
          /\ (last.op = "update_text" => rendered' = <<>>)]_vars

\* A tick has rendered row 1 alone of a two-row grid, after a put_char to
\* row 1: row 0 was not marked.
C2_Witness ==
    /\ last.op = "update_text"
    /\ text_mode_height = 2
    /\ rendered = <<1>>
    /\ \E col \in GridCols : Cell(1, col, FG_COLOR_INDEX) # 0

\* C3: put_char with valid arguments overwrites the four components of the
\* cell (row, col) and sets the dirty flag of that row; every other cell and
\* flag, the dimensions, the cursor, the scale, the surface and the
\* scheduler are unchanged.
C3_PutCharFrame ==
    [][\A row \in 0..(MaxRows - 1), col \in 0..(MaxCols - 1), c \in CellInputs :
          put_char(row, col, c[1], c[2], c[3], c[4]) =>
             /\ DOMAIN text_mode_data' = DOMAIN text_mode_data
             /\ \A r \in GridRows, cc \in GridCols, k \in 0..(TEXT_MODE_COMPONENT_SIZE - 1) :
                   LET j == TEXT_MODE_COMPONENT_SIZE * (r * text_mode_width + cc) + k
                   IN  text_mode_data'[j] =
                          IF r = row /\ cc = col THEN c[k + 1] ELSE text_mode_data[j]
             /\ DOMAIN changed_rows' = DOMAIN changed_rows
             /\ \A r \in GridRows :
                   changed_rows'[r] = IF r = row THEN 1 ELSE changed_rows[r]
             /\ UNCHANGED << text_mode_width, text_mode_height, cursor, scale,
                             surface, scheduler >>]_vars

\* put_char has written the second cell of a row whose first cell holds an
\* earlier write, and the other row is clean.
C3_Witness ==
    /\ last.op = "put_char"
    /\ last.col = 1
    /\ Cell(last.row, 1, CHARACTER_INDEX) = last.chr
    /\ Cell(last.row, 0, FG_COLOR_INDEX) # 0
    /\ Attrs(last.row, 0) # Attrs(last.row, 1)
    /\ changed_rows[last.row] = 1
    /\ \E r \in GridRows : changed_rows[r] = 0

\* C4 (as stated): after put_char(row, col, chr) the string get_text_row(row)
\* has the grid's width and holds charmap[chr] at index col, and
\* get_text_screen is the rows 0..height-1 of get_text_row.
C4_TextRowHoldsGlyph ==
    last.op = "put_char" =>
        /\ Len(get_text_row(last.row)) = text_mode_width
        /\ <<get_text_row(last.row)[last.col + 1]>> = charmap(last.chr)
        /\ Len(get_text_screen) = text_mode_height
        /\ \A r \in GridRows : get_text_screen[r + 1] = get_text_row(r)

\* C5 (as stated): the texts of the runs of a row, concatenated in order,
\* are the string get_text_row returns for the row.
C5_RunTextsAreTextRow ==
    \A row \in JustRendered :
        ConcatText(RunsOf(text_screen[row + 1])) = get_text_row(row)

\* C6: the runs of a row partition it: there are at most width of them, none
\* is empty, their lengths sum to the width, and every cell of the span a
\* run covers has the run's blink flag, background and foreground color.
RunsPartition(row, children) ==
    LET runs == RunsOf(children)
    IN  /\ Len(runs) <= text_mode_width
        /\ \A k \in 1..Len(runs) : RunLen(runs, k) >= 1
        /\ Len(ConcatText(runs)) = text_mode_width
        /\ \A k \in 1..Len(runs) :
             \A j \in RunStart(runs, k)..(RunStart(runs, k) + RunLen(runs, k) - 1) :
                /\ j < text_mode_width
                /\ runs[k].blink = (Cell(row, j, BLINKING_INDEX) # 0)
                /\ runs[k].backgroundColor =
                      number_as_color(Cell(row, j, BG_COLOR_INDEX))
                /\ runs[k].color = number_as_color(Cell(row, j, FG_COLOR_INDEX))

C6_RunsPartitionRow ==
    /\ \A row \in GridRows : RunsPartition(row, Fragment(row).children)
    /\ \A row \in JustRendered : RunsPartition(row, text_screen[row + 1])

\* A tick has rendered a full-length row of two attribute segments, the
\* cursor being beyond the row's end, as two runs.
C6_Witness ==
    /\ last.op = "update_text"
    /\ text_mode_width = MaxRowLen
    /\ \E row \in Range(rendered) :
          /\ cursor_row = row
          /\ cursor_col >= text_mode_width
          /\ Cardinality(SegmentStarts(row)) = 2
          /\ text_screen[row + 1] = Fragment(row).children
          /\ Len(RunsOf(text_screen[row + 1])) = 2

\* C7: runs are maximal but for the cursor: the columns at which the runs
\* of a row start are the starts of its maximal attribute-uniform segments
\* and, on the cursor's row, the column of the cursor and the one after it;
\* so a row off the cursor has as many runs as segments, the cursor's row
\* has at most the two boundaries of the cursor's cell more, and a uniform
\* row with the cursor at column c, 0 < c < width-1, has the three runs
\* 0..c-1, c, c+1..width-1.
RunsMaximal(row, children) ==
    LET runs == RunsOf(children)
        segments == Cardinality(SegmentStarts(row))
    IN  /\ RunStarts(runs) = SegmentStarts(row) \cup CursorSplits(row)
        /\ Len(runs) = Cardinality(RunStarts(runs))
        /\ row # cursor_row => Len(runs) = segments
        /\ Len(runs) >= segments /\ Len(runs) <= segments + 2
        /\ (/\ segments = 1
            /\ row = cursor_row
            /\ 0 < cursor_col /\ cursor_col < text_mode_width - 1)
           => /\ Len(runs) = 3
              /\ RunLen(runs, 1) = cursor_col
              /\ RunLen(runs, 2) = 1
              /\ RunLen(runs, 3) = text_mode_width - cursor_col - 1

C7_RunsMaximalButCursor ==
    /\ \A row \in GridRows : RunsMaximal(row, Fragment(row).children)
    /\ \A row \in JustRendered : RunsMaximal(row, text_screen[row + 1])

\* A tick has rendered a uniform row with the cursor inside it as three
\* runs.
C7_Witness ==
    /\ last.op = "update_text"
    /\ \E row \in Range(rendered) :
          /\ row = cursor_row
          /\ 0 < cursor_col /\ cursor_col < text_mode_width - 1
          /\ Cardinality(SegmentStarts(row)) = 1
          /\ Len(RunsOf(text_screen[row + 1])) = 3

\* The children of a row that are the cursor element.
CursorsIn(children) == {k \in 1..Len(children) : children[k].tag = "cursor"}

\* C8: on the cursor's row with 0 <= cursor_col < width the fragment holds
\* the cursor element once, right before a run of one cell that starts at
\* cursor_col, and the cursor's background is the foreground color of the
\* cell under it; on any other row, or with cursor_col >= width, the
\* fragment holds no cursor element.
CursorOwnRun(row, ch, cursor_bg) ==
    IF row = cursor_row /\ 0 <= cursor_col /\ cursor_col < text_mode_width
    THEN /\ Cardinality(CursorsIn(ch)) = 1
         /\ \A k \in CursorsIn(ch) :
               /\ k < Len(ch)
               /\ ch[k + 1].tag = "span"
               /\ Len(ch[k + 1].textContent) = 1
               /\ Len(ConcatText(RunsOf(SubSeq(ch, 1, k)))) = cursor_col
         /\ cursor_bg = number_as_color(Cell(row, cursor_col, FG_COLOR_INDEX))
    ELSE CursorsIn(ch) = {}

C8_CursorCellIsItsOwnRun ==
    /\ \A row \in GridRows :
          CursorOwnRun(row, Fragment(row).children, Fragment(row).cursor_bg)
    /\ \A row \in JustRendered :
          CursorOwnRun(row, text_screen[row + 1], cursor_backgroundColor)

\* A tick has rendered the cursor's row with the cursor on its last column,
\* inside a segment of equal attributes: the surface shows the cursor
\* element before the last span, in the cell's foreground color.
C8_Witness ==
    /\ last.op = "update_text"
    /\ text_mode_width >= 2
    /\ cursor_row \in Range(rendered)
    /\ cursor_col = text_mode_width - 1
    /\ Attrs(cursor_row, cursor_col) = Attrs(cursor_row, cursor_col - 1)
    /\ LET ch == text_screen[cursor_row + 1]
       IN  /\ Len(ch) >= 3
           /\ ch[Len(ch) - 1].tag = "cursor"
           /\ ch[Len(ch)].tag = "span"
    /\ cursor_backgroundColor =
          number_as_color(Cell(cursor_row, cursor_col, FG_COLOR_INDEX))
    /\ cursor_backgroundColor # number_as_color(\Hcccccc)

\* C9: update_cursor to another position sets the dirty flag of the
\* previous and of the new cursor row, where these are rows of the grid,
\* sets no other flag, changes no cell and stores the position;
\* update_cursor to the current position changes nothing.
C9_UpdateCursorMarksBothRows ==
    [][\A row \in 0..MaxRows, col \in 0..MaxCols :
          update_cursor(row, col) =>
             IF row # cursor_row \/ col # cursor_col
             THEN /\ DOMAIN changed_rows' = DOMAIN changed_rows
                  /\ \A r \in GridRows :
                        changed_rows'[r] =
                           IF r = row \/ r = cursor_row THEN 1 ELSE changed_rows[r]
                  /\ cursor_row' = row
                  /\ cursor_col' = col
                  /\ UNCHANGED << text_mode_width, text_mode_height,
                                  text_mode_data, surface >>
             ELSE UNCHANGED << grid, cursor, surface >>]_vars

\* update_cursor has moved the cursor from row 0 to row 1 of a grid no
\* put_char wrote to since the tick before: both rows are dirty.
C9_Witness ==
    /\ last.op = "update_cursor"
    /\ cursor_row = 1
    /\ written = {}
    /\ text_mode_height = 2
    /\ changed_rows[0] = 1
    /\ changed_rows[1] = 1

\* C10: set_size_text with the current dimensions leaves the cells and the
\* dirty flags as they are and renders no row.
C10_SameSizeIsNoOp ==
    [][\A cols \in 1..MaxCols, rows \in 1..MaxRows :
          (/\ cols = text_mode_width
           /\ rows = text_mode_height
           /\ set_size_text(cols, rows))
          => /\ UNCHANGED << grid, surface >>
             /\ rendered' = <<>>]_vars

\* set_size_text with the current dimensions has run on a grid that was
\* written to before: the write and its dirty flag are still there, the
\* other row is still clean, and no row was rendered.
C10_Witness ==
    /\ last.op = "set_size_text"
    /\ rendered = <<>>
    /\ \E r \in GridRows :
          /\ changed_rows[r] = 1
          /\ Cell(r, 0, FG_COLOR_INDEX) # 0
    /\ \E r \in GridRows : changed_rows[r] = 0

\* C11, what holds of every reallocating set_size_text(cols, rows): the new
\* dimensions are stored, the cell buffer has cols*rows cells that are all
\* zero and there is one dirty flag per row.
ResizedGrid(cols, rows) ==
    /\ text_mode_width' = cols
    /\ text_mode_height' = rows
    /\ DOMAIN text_mode_data' = 0..(cols * rows * TEXT_MODE_COMPONENT_SIZE - 1)
    /\ \A j \in DOMAIN text_mode_data' : text_mode_data'[j] = 0
    /\ DOMAIN changed_rows' = 0..(rows - 1)

adapter == << grid, cursor, scale, surface, scheduler, style, canvas >>

\* C12 (as stated): pause() and continue() are idempotent, continue() leaves
\* Paused, destroy() is irreversible, and once destroy() has been called no
\* tick is serviced and none is requested, whatever is called.
C12_DestroyIsTerminal ==
    [][/\ (pause => paused')
       /\ (continue => ~paused')
       /\ ((pause /\ last.op = "pause") => UNCHANGED adapter)
       /\ ((continue /\ last.op = "continue") => UNCHANGED adapter)
       /\ ((pause \/ continue) => UNCHANGED << stopped, raf_pending >>)
       /\ (stopped => stopped')
       /\ (stopped => raf_pending' <= raf_pending)
       /\ (stopped => ~animation_frame)]_vars

\* C13: a graphics-mode tick calls screen_fill_buffer once unless paused and
\* not at all when paused; either way it leaves the next tick requested
\* unless the adapter is destroyed; continue() ends the pause.
C13_GraphicsTickFillsUnlessPaused ==
    [][/\ (animation_frame /\ is_graphical)
            => /\ fill_calls' = IF paused THEN 0 ELSE 1
               /\ raf_pending' = IF stopped THEN raf_pending - 1 ELSE 1
               /\ UNCHANGED << paused, stopped, is_graphical >>
       /\ (continue => ~paused')]_vars

\* A graphics-mode tick has run while paused: screen_fill_buffer was not
\* called and the next tick is requested.
C13_Witness ==
    /\ last.op = "update_graphical"
    /\ paused
    /\ ~stopped
    /\ fill_calls = 0
    /\ raf_pending = 1

\* C14: at most one tick request is outstanding at any time; an operation
\* of the device requests none, and a tick, which is the one outstanding
\* request being served, leaves one request unless the adapter is destroyed.
C14_TicksNeverOverlap ==
    /\ [](raf_pending \in {0, 1})
    /\ [][IF animation_frame
          THEN raf_pending = 1 /\ raf_pending' = IF stopped THEN 0 ELSE 1
          ELSE raf_pending' = raf_pending]_vars

\* A text-mode tick has run after the canvas was resized and the scale was
\* set, and one tick is requested.
C14_Witness ==
    /\ last.op = "update_text"
    /\ graphic_width = 320
    /\ scale_x = Num(2)
    /\ raf_pending = 1

\* C15 (as stated): put_char with a row, a column or a character outside
\* its range writes no cell and sets no dirty flag, and the tick loop goes
\* on: one tick stays requested.
C15_BadPutCharWritesNothing ==
    /\ [](raf_pending = 1)
    /\ [][\A row \in UncheckedRows, col \in UncheckedCols, chr \in UncheckedChars :
             (~PutCharAsserts(row, col, chr) /\ put_char(row, col, chr, 0, 0, \HAAAAAA))
             => UNCHANGED << grid, cursor, surface, scheduler >>]_vars

\* C16: set_size_graphical sets base_scale to 2 if autoscale is enabled, the
\* width is at most 640 and twice the width and twice the height are less
\* than the window's inner width and height times its pixel ratio, and to 1
\* otherwise, whatever base_scale was; nothing else changes base_scale, which
\* is always 1 or 2; 320x200 in a 1920x1080 window of ratio 1 gives 2, and
\* 800x600 gives 1.
C16_BaseScaleIsAutoscale ==
    /\ [](base_scale \in {1, 2})
    /\ [][/\ \A size \in GraphicSizes, buffer \in GraphicSizes :
               set_size_graphical(size[1], size[2], buffer[1], buffer[2])
               => /\ (base_scale' = 2) <=>
                        (/\ ~disable_autoscale
                         /\ size[1] <= 640
                         /\ size[1] * 2 * devicePixelRatio[2]
                               < innerWidth * devicePixelRatio[1]
                         /\ size[2] * 2 * devicePixelRatio[2]
                               < innerHeight * devicePixelRatio[1])
                  /\ (/\ ~disable_autoscale
                      /\ window = << 1920, 1080, Num(1) >>)
                     => /\ (size = << 320, 200 >> => base_scale' = 2)
                        /\ (size = << 800, 600 >> => base_scale' = 1)
           /\ (base_scale' # base_scale => last'.op = "set_size_graphical")]_vars

\* set_size_graphical has set base_scale to 2 for a canvas of the largest
\* width that is scaled, 640; the constructor had left it 1.
C16_Witness ==
    /\ last.op = "set_size_graphical"
    /\ graphic_width = 640
    /\ base_scale = 2

\* The scale s divided by the window's pixel ratio where that is no whole
\* number, and the width or height a style has for the scale f.
DividedByRatio(s) ==
    IF devicePixelRatio[2] # 1
    THEN Rat(s[1] * devicePixelRatio[2], s[2] * devicePixelRatio[1])
    ELSE Rat(s[1], s[2])
StyleSize(f) == IF f = Num(1) THEN <<>> ELSE <<f>>

\* The graphics surface is sized by the requested scale times base_scale,
\* divided by a fractional pixel ratio.
GraphicScaleApplied(s_x, s_y, base) ==
    /\ graphic_style'.width = StyleSize(DividedByRatio(<<s_x[1] * base, s_x[2]>>))
    /\ graphic_style'.height = StyleSize(DividedByRatio(<<s_y[1] * base, s_y[2]>>))

\* C17 (as stated): the scale applied to the text surface is the requested
\* scale and the one applied to the graphics surface is the requested scale
\* times base_scale, and for both surfaces both axes are divided by the
\* pixel ratio when that is no whole number.
C17_BothSurfacesNormalized ==
    [][/\ \A s_x \in Scales, s_y \in Scales :
             set_scale(s_x, s_y)
             => /\ GraphicScaleApplied(s_x, s_y, base_scale)
                /\ text_style'.width = StyleSize(DividedByRatio(s_x))
                /\ text_style'.height = StyleSize(DividedByRatio(s_y))
       /\ \A size \in GraphicSizes, buffer \in GraphicSizes :
             set_size_graphical(size[1], size[2], buffer[1], buffer[2])
             => GraphicScaleApplied(scale_x, scale_y, base_scale')]_vars

\* C18 (as stated): set_scale called with the current scale_x and scale_y,
\* and set_size_graphical called with the canvas' current width and height,
\* leave the scale, base_scale, the size of both surfaces and the canvas'
\* pixels as they are.
C18_SameConfigurationIsNoop ==
    [][(\/ set_scale(scale_x, scale_y)
        \/ \E buffer \in GraphicSizes :
              set_size_graphical(graphic_width, graphic_height,
                                 buffer[1], buffer[2]))
       => UNCHANGED << scale, style, canvas >>]_vars

\* The pixel q of a canvas bitmap: the image pixel drawn there, or the fill
\* of the bitmap (which is no pixel of an image); and the pixels a frame's
\* layers can reach.
PixelAt(pixels, q) ==
    IF q \in DOMAIN pixels.data THEN pixels.data[q]
    ELSE << pixels.fill, Undefined, Undefined >>
Reach == ((0 - 2)..(2 * MaxImage)) \X ((0 - 2)..(2 * MaxImage))
OnCanvas(q) ==
    /\ 0 <= q[1] /\ q[1] < graphic_width
    /\ 0 <= q[2] /\ q[2] < graphic_height

\* The pixel of the layer's image that lands on the canvas pixel q when the
\* layer's rectangle is put at (screen_x - buffer_x, screen_y - buffer_y),
\* and whether the rectangle holds it.
SourceOf(layer, q) ==
    << q[1] - (layer.screen_x - layer.buffer_x),
       q[2] - (layer.screen_y - layer.buffer_y) >>
Covers(layer, q) ==
    LET src == SourceOf(layer, q)
    IN  /\ layer.buffer_x <= src[1]
        /\ src[1] < layer.buffer_x + layer.buffer_width
        /\ layer.buffer_y <= src[2]
        /\ src[2] < layer.buffer_y + layer.buffer_height
        /\ src \in DOMAIN layer.image_data.data

\* C19: after update_buffer(layers) every canvas pixel covered by a layer
\* holds the pixel of the last layer of the list that covers it, taken from
\* that layer's rectangle put at (screen_x - buffer_x, screen_y - buffer_y);
\* a pixel no layer covers is unchanged, nothing is drawn outside the
\* canvas, and nothing else of the adapter changes: it keeps no layer.
C19_LaterLayerWins ==
    [][\A layers \in (IF last'.op = "update_buffer" THEN {last'.layers} ELSE {}) :
          update_buffer(layers)
          => /\ \A q \in Reach :
                  LET covering == { i \in DOMAIN layers : Covers(layers[i], q) }
                  IN  IF OnCanvas(q) /\ covering # {}
                      THEN LET top == CHOOSE i \in covering :
                                          \A j \in covering : j <= i
                           IN  PixelAt(graphic_pixels', q) =
                                   layers[top].image_data.data[SourceOf(layers[top], q)]
                      ELSE PixelAt(graphic_pixels', q) = PixelAt(graphic_pixels, q)
             /\ DOMAIN graphic_pixels'.data \subseteq { q \in Reach : OnCanvas(q) }
             /\ UNCHANGED << grid, cursor, scale, surface, scheduler, style,
                             graphic_width, graphic_height >>]_vars

\* update_buffer has drawn a layer of image "A" and then a layer of image
\* "B" from the second column of its image; a canvas pixel covered by both
\* holds the pixel of "B", and another one still shows "A".
C19_Witness ==
    /\ last.op = "update_buffer"
    /\ Len(last.layers) = 2
    /\ last.layers[2].buffer_x = 1
    /\ \E q \in Reach :
          /\ Covers(last.layers[1], q) /\ Covers(last.layers[2], q)
          /\ OnCanvas(q)
          /\ PixelAt(graphic_pixels, q) =
                 << "B", SourceOf(last.layers[2], q)[1], SourceOf(last.layers[2], q)[2] >>
    /\ \E q \in Reach : OnCanvas(q) /\ PixelAt(graphic_pixels, q)[1] = "A"

\* A row of the grid whose dirty flag is set, and one the surface shows as
\* text_update_row renders it from the cells and the cursor as they are.
IsDirty(row) == row \in GridRows /\ changed_rows[row] # 0
ShownAsRendered(row) == text_screen[row + 1] = Fragment(row).children

\* C20 (as stated): a row whose dirty flag is clear is shown as text_update_row renders
\* its current cells and the current cursor; set_mode and a tick of graphics
\* mode keep every dirty flag and a tick of text mode renders exactly the
\* dirty rows and clears their flags; and, with ticks delivered fairly, a
\* row that is dirty in text mode is rendered from its current cells (by a
\* tick, or by the resize that replaces the grid) unless the adapter is
\* destroyed or put into graphics mode first or the row is removed by a
\* resize.
C20_NoTextUpdateIsLost ==
    /\ [](\A row \in GridRows : ~IsDirty(row) => ShownAsRendered(row))
    /\ [][/\ (\E graphical \in BOOLEAN : set_mode(graphical))
              => changed_rows' = changed_rows
          /\ (animation_frame /\ is_graphical)
              => changed_rows' = changed_rows /\ text_screen' = text_screen
          /\ TextTick
              => /\ Range(rendered') = { row \in GridRows : IsDirty(row) }
                 /\ \A row \in GridRows : changed_rows'[row] = 0]_vars
    /\ \A row \in 0..(MaxRows - 1) :
          (IsDirty(row) /\ ~is_graphical /\ ~stopped)
             ~> \/ row \in Range(rendered) /\ ~IsDirty(row)
                \/ stopped
                \/ is_graphical
                \/ row \notin GridRows

====
